---- MODULE Spec2Model ----
(***************************************************************************)
(* okta/UsersClient.py: the Users Client of the Okta SDK.                  *)
(*                                                                         *)
(* Every method of UsersClient builds one call to the generic ApiClient    *)
(* (get, get_path, post_path, put_path, delete_path), waits for the        *)
(* response and turns it into its return value.  The model records the     *)
(* calls handed to ApiClient exactly as the source writes them: the method *)
(* called, the path or URL, the data argument and the params argument,     *)
(* with "not passed" kept apart from "passed as None".                     *)
(***************************************************************************)
EXTENDS Integers, Sequences, FiniteSets, TLC

VARIABLES base_url, api_token, pc, call, issued, response, result

vars == <<base_url, api_token, pc, call, issued, response, result>>

(***************************************************************************)
(* Bounds of the model.                                                    *)
(***************************************************************************)
MaxUid == 2
MaxItems == 1

(***************************************************************************)
(* Python values that reach the client as arguments.                       *)
(***************************************************************************)
PyNone == [t |-> "NoneType"]
PyBool(b) == [t |-> "bool", b |-> b]
PyStr(s) == [t |-> "str", s |-> s]
PyInt(i) == [t |-> "int", i |-> i]

\* An argument the caller left out of the call: the parameter's default binds.
Omitted == [t |-> "omitted"]

Default(arg, dflt) == IF arg = Omitted THEN dflt ELSE arg

\* Python truth value, as tested by `if url:` and `if not temp_password:`.
Truthy(v) ==
    CASE v.t = "NoneType" -> FALSE
      [] v.t = "bool" -> v.b
      [] v.t = "str" -> v.s /= ""
      [] v.t = "int" -> v.i /= 0

(***************************************************************************)
(* Argument domains.                                                       *)
(***************************************************************************)
Uids == {"u" \o ToString(i) : i \in 1..MaxUid}
User(uid) == [id |-> uid]
Users == {User(u) : u \in Uids}
Limits == {PyNone, PyInt(1)}
Queries == {PyNone, PyStr(""), PyStr("q")}
Filters == {PyNone, PyStr("f")}
Searches == {PyNone, PyStr("s")}
Afters == {PyNone, PyStr("u1")}
NextUrl == "https://org.example.com/api/v1/users?after=u1&limit=1"
Urls == {PyNone, PyStr(""), PyStr(NextUrl)}
Bools == {PyBool(TRUE), PyBool(FALSE)}
Activates == Bools \cup {PyNone, Omitted}
Flags == Bools \cup {Omitted}
Passwords == {"pw1", "pw2"}
BaseUrls == {"https://org.example.com", "https://dev.example.com"}
Tokens == {"token1", "token2"}

(***************************************************************************)
(* Calls to ApiClient.                                                     *)
(***************************************************************************)
NotPassed == [passed |-> FALSE]
Passed(v) == [passed |-> TRUE, value |-> v]

ApiCall(method, target, data, params) ==
    [method |-> method, target |-> target, data |-> data, params |-> params]

\* '/{0}...'.format(uid)
Format(prefix, uid, suffix) == prefix \o uid \o suffix

Verb(method) ==
    CASE method = "get" -> "GET"
      [] method = "get_path" -> "GET"
      [] method = "post_path" -> "POST"
      [] method = "put_path" -> "PUT"
      [] method = "delete_path" -> "DELETE"

(***************************************************************************)
(* Responses and their parsing.                                            *)
(***************************************************************************)
Bodies ==
    {[kind |-> "object", n |-> 1], [kind |-> "invalid", n |-> 0]}
        \cup {[kind |-> "array", n |-> k] : k \in 0..MaxItems}
Responses == {[text |-> b] : b \in Bodies}
HttpErrors == {"TransportError", "HttpStatusError"}

NoCall == [op |-> "none"]
NoResponse == [text |-> [kind |-> "none", n |-> 0]]
NoResult == [kind |-> "pending"]
Returned(v) == [kind |-> "returned", value |-> v]
Raised(e) == [kind |-> "raised", error |-> e]

user_model == "User"

\* Utils.deserialize(text, model)
Deserialize(text, model) ==
    CASE text.kind = "array" ->
           Returned([model |-> model, many |-> TRUE, n |-> text.n])
      [] text.kind = "object" ->
           Returned([model |-> model, many |-> FALSE, n |-> 1])
      [] OTHER -> Raised("DeserializationError")

\* json.loads(text)
json_loads(text) ==
    IF text.kind \in {"array", "object"}
    THEN Returned([json |-> text])
    ELSE Raised("ValueError")

\* PagedResults(response, model): the page is deserialized on construction.
PagedResults(resp, model) ==
    LET page == Deserialize(resp.text, model)
    IN IF page.kind = "raised" THEN page
       ELSE Returned([paged |-> TRUE, page |-> page.value, response |-> resp])

(***************************************************************************)
(* The ApiClient call each method makes and the value it returns.          *)
(***************************************************************************)

\* CRUD

\* Variant: the method itself leaves the unset options out of the mapping.
get_users_request_drop_none(limit, q, filter_string, search_string) ==
    LET d == [limit |-> limit, q |-> q, filter |-> filter_string,
              search |-> search_string]
        set == {k \in DOMAIN d : d[k] /= PyNone}
    IN ApiCall("get_path", "/", NotPassed, Passed([k \in set |-> d[k]]))

get_users_request(limit, q, filter_string, search_string) ==
    ApiCall("get_path", "/", NotPassed,
            Passed([limit |-> limit, q |-> q, filter |-> filter_string,
                    search |-> search_string]))

get_users_return(resp) == Deserialize(resp.text, user_model)

get_user_request(uid) ==
    ApiCall("get_path", Format("/", uid, ""), NotPassed, NotPassed)

get_user_return(resp) == Deserialize(resp.text, user_model)

get_user_groups_request(uid) ==
    ApiCall("get_path", Format("/", uid, "/groups"), NotPassed, NotPassed)

get_user_groups_return(resp) == Deserialize(resp.text, "UserGroup")

get_user_apps_request(uid) ==
    ApiCall("get_path", Format("/", uid, "/appLinks"), NotPassed, NotPassed)

get_user_apps_return(resp) == json_loads(resp.text)

update_user_by_id_request(uid, user) ==
    ApiCall("put_path", Format("/", uid, ""), Passed(user), NotPassed)

update_user_by_id_return(resp) == Deserialize(resp.text, user_model)

\* Variant: the partial update goes out through put_path.
update_user_by_id_partially_request_put(uid, user) ==
    ApiCall("put_path", Format("/", uid, ""), Passed(user), NotPassed)

update_user_by_id_partially_request(uid, user) ==
    ApiCall("post_path", Format("/", uid, ""), Passed(user), NotPassed)

update_user_by_id_partially_return(resp) == Deserialize(resp.text, user_model)

update_user_request(user) == update_user_by_id_request(user.id, user)

update_user_partially_request(user) ==
    update_user_by_id_partially_request(user.id, user)

\* Variant: tests the flag's truth value (`if not activate`) instead of
\* `activate is None`.
create_user_request_falsy(user, activate) ==
    IF ~Truthy(activate)
    THEN ApiCall("post_path", "/", Passed(user), NotPassed)
    ELSE ApiCall("post_path", "/", Passed(user),
                 Passed([activate |-> activate]))

create_user_request(user, activate) ==
    IF activate = PyNone
    THEN ApiCall("post_path", "/", Passed(user), NotPassed)
    ELSE ApiCall("post_path", "/", Passed(user),
                 Passed([activate |-> activate]))

create_user_return(resp) == Deserialize(resp.text, user_model)

delete_user_request(uid) ==
    ApiCall("delete_path", Format("/", uid, ""), NotPassed, NotPassed)

\* Variant: a body that does not parse is swallowed and None returned.
delete_user_return_quiet(resp) ==
    IF resp.text.kind = "invalid"
    THEN Returned(PyNone)
    ELSE Deserialize(resp.text, user_model)

delete_user_return(resp) == Deserialize(resp.text, user_model)

\* Variant: the query is built and sent with the continuation URL too.
get_paged_users_request_params(limit, filter_string, search_string, after, url) ==
    LET params == Passed([limit |-> limit, after |-> after,
                          filter |-> filter_string, search |-> search_string])
    IN IF Truthy(url)
       THEN ApiCall("get", url.s, NotPassed, params)
       ELSE ApiCall("get_path", "/", NotPassed, params)

get_paged_users_request(limit, filter_string, search_string, after, url) ==
    IF Truthy(url)
    THEN ApiCall("get", url.s, NotPassed, NotPassed)
    ELSE ApiCall("get_path", "/", NotPassed,
                 Passed([limit |-> limit, after |-> after,
                         filter |-> filter_string, search |-> search_string]))

get_paged_users_return(resp) == PagedResults(resp, user_model)

\* LIFECYCLE

activate_user_request(uid, send_email) ==
    ApiCall("post_path", Format("/", uid, "/lifecycle/activate"), NotPassed,
            Passed([sendEmail |-> send_email]))

activate_user_return(resp) == Deserialize(resp.text, "ActivationResponse")

deactivate_user_request(uid) ==
    ApiCall("post_path", Format("/", uid, "/lifecycle/deactivate"),
            NotPassed, NotPassed)

deactivate_user_return(resp) == Deserialize(resp.text, user_model)

unlock_user_request(uid) ==
    ApiCall("post_path", Format("/", uid, "/lifecycle/unlock"),
            NotPassed, NotPassed)

unlock_user_return(resp) == Deserialize(resp.text, user_model)

\* Variant: the mapping is passed positionally and lands in the data argument.
reset_password_request_positional(uid, send_email) ==
    ApiCall("post_path", Format("/", uid, "/lifecycle/reset_password"),
            Passed([sendEmail |-> send_email]), NotPassed)

reset_password_request(uid, send_email) ==
    ApiCall("post_path", Format("/", uid, "/lifecycle/reset_password"),
            NotPassed, Passed([sendEmail |-> send_email]))

reset_password_return(resp) == Deserialize(resp.text, "ResetPasswordToken")

change_password_request(uid, old_password, new_password) ==
    ApiCall("post_path", Format("/", uid, "/credentials/change_password"),
            Passed([oldPassword |-> [value |-> old_password],
                    newPassword |-> [value |-> new_password]]),
            NotPassed)

change_password_return(resp) == Deserialize(resp.text, "LoginCredentials")

expire_password_request(uid, temp_password) ==
    IF ~Truthy(temp_password)
    THEN ApiCall("post_path", Format("/", uid, "/lifecycle/expire_password"),
                 NotPassed, NotPassed)
    ELSE ApiCall("post_path", Format("/", uid, "/lifecycle/expire_password"),
                 NotPassed, Passed([tempPassword |-> temp_password]))

\* Variant: deserializes the response on both branches.
expire_password_return_always(temp_password, resp) ==
    Deserialize(resp.text, "TempPassword")

expire_password_return(temp_password, resp) ==
    IF ~Truthy(temp_password)
    THEN Returned(PyNone)
    ELSE Deserialize(resp.text, "TempPassword")

\* The value the method in progress returns (or the error it raises) once the
\* response is in.
ReturnOf(c, resp) ==
    CASE c.op = "get_users" -> get_users_return(resp)
      [] c.op = "get_user" -> get_user_return(resp)
      [] c.op = "get_user_groups" -> get_user_groups_return(resp)
      [] c.op = "get_user_apps" -> get_user_apps_return(resp)
      [] c.op = "update_user" -> update_user_by_id_return(resp)
      [] c.op = "update_user_partially" ->
           update_user_by_id_partially_return(resp)
      [] c.op = "update_user_by_id" -> update_user_by_id_return(resp)
      [] c.op = "update_user_by_id_partially" ->
           update_user_by_id_partially_return(resp)
      [] c.op = "create_user" -> create_user_return(resp)
      [] c.op = "delete_user" -> delete_user_return(resp)
      [] c.op = "get_paged_users" -> get_paged_users_return(resp)
      [] c.op = "activate_user" -> activate_user_return(resp)
      [] c.op = "deactivate_user" -> deactivate_user_return(resp)
      [] c.op = "unlock_user" -> unlock_user_return(resp)
      [] c.op = "reset_password" -> reset_password_return(resp)
      [] c.op = "change_password" -> change_password_return(resp)
      [] c.op = "expire_password" ->
           expire_password_return(Default(c.args.temp_password, PyBool(FALSE)),
                                  resp)

(***************************************************************************)
(* The state machine.  A client is idle between calls; a call hands its    *)
(* request to ApiClient and blocks ("waiting") until ApiClient returns a   *)
(* response ("responded") or raises; the method then builds its result.    *)
(***************************************************************************)

\* UsersClient.__init__(base_url, api_token)
Init ==
    /\ base_url \in {b \o "/api/v1/users" : b \in BaseUrls}
    /\ api_token \in Tokens
    /\ pc = "idle"
    /\ call = NoCall
    /\ issued = <<>>
    /\ response = NoResponse
    /\ result = NoResult

\* Entry of a method, callable on an idle client: its ApiClient calls go out
\* and the caller blocks.
Invoke(op, args, calls) ==
    /\ pc' = "waiting"
    /\ call' = [op |-> op, args |-> args]
    /\ issued' = calls
    /\ response' = NoResponse
    /\ result' = NoResult
    /\ UNCHANGED <<base_url, api_token>>

get_users(limit, q, filter_string, search_string) ==
    /\ pc = "idle"
    /\ Invoke("get_users",
           [limit |-> limit, q |-> q, filter_string |-> filter_string,
            search_string |-> search_string],
           <<get_users_request(limit, q, filter_string, search_string)>>)

get_user(uid) ==
    /\ pc = "idle"
    /\ Invoke("get_user", [uid |-> uid], <<get_user_request(uid)>>)

get_user_groups(uid) ==
    /\ pc = "idle"
    /\ Invoke("get_user_groups", [uid |-> uid], <<get_user_groups_request(uid)>>)

get_user_apps(uid) ==
    /\ pc = "idle"
    /\ Invoke("get_user_apps", [uid |-> uid], <<get_user_apps_request(uid)>>)

update_user(user) ==
    /\ pc = "idle"
    /\ Invoke("update_user", [user |-> user], <<update_user_request(user)>>)

update_user_partially(user) ==
    /\ pc = "idle"
    /\ Invoke("update_user_partially", [user |-> user],
           <<update_user_partially_request(user)>>)

update_user_by_id(uid, user) ==
    /\ pc = "idle"
    /\ Invoke("update_user_by_id", [uid |-> uid, user |-> user],
           <<update_user_by_id_request(uid, user)>>)

update_user_by_id_partially(uid, user) ==
    /\ pc = "idle"
    /\ Invoke("update_user_by_id_partially", [uid |-> uid, user |-> user],
           <<update_user_by_id_partially_request(uid, user)>>)

\* Variant: the parameter is declared activate=None.
create_user_default_none(user, activate) ==
    /\ pc = "idle"
    /\ Invoke("create_user", [user |-> user, activate |-> activate],
           <<create_user_request(user, Default(activate, PyNone))>>)

create_user(user, activate) ==
    /\ pc = "idle"
    /\ Invoke("create_user", [user |-> user, activate |-> activate],
           <<create_user_request(user, Default(activate, PyBool(FALSE)))>>)

delete_user(uid) ==
    /\ pc = "idle"
    /\ Invoke("delete_user", [uid |-> uid], <<delete_user_request(uid)>>)

\* Variant: the continuation URL is kept on the client as its base URL.
get_paged_users_keeps_url(limit, filter_string, search_string, after, url) ==
    /\ pc = "idle"
    /\ pc' = "waiting"
    /\ call' = [op |-> "get_paged_users",
                args |-> [limit |-> limit, filter_string |-> filter_string,
                          search_string |-> search_string, after |-> after,
                          url |-> url]]
    /\ issued' = <<get_paged_users_request(limit, filter_string,
                                           search_string, after, url)>>
    /\ response' = NoResponse
    /\ result' = NoResult
    /\ base_url' = IF Truthy(url) THEN url.s ELSE base_url
    /\ UNCHANGED api_token

get_paged_users(limit, filter_string, search_string, after, url) ==
    /\ pc = "idle"
    /\ Invoke("get_paged_users",
           [limit |-> limit, filter_string |-> filter_string,
            search_string |-> search_string, after |-> after, url |-> url],
           <<get_paged_users_request(limit, filter_string, search_string,
                                     after, url)>>)

activate_user(uid, send_email) ==
    /\ pc = "idle"
    /\ Invoke("activate_user", [uid |-> uid, send_email |-> send_email],
           <<activate_user_request(uid, Default(send_email, PyBool(TRUE)))>>)

deactivate_user(uid) ==
    /\ pc = "idle"
    /\ Invoke("deactivate_user", [uid |-> uid], <<deactivate_user_request(uid)>>)

unlock_user(uid) ==
    /\ pc = "idle"
    /\ Invoke("unlock_user", [uid |-> uid], <<unlock_user_request(uid)>>)

reset_password(uid, send_email) ==
    /\ pc = "idle"
    /\ Invoke("reset_password", [uid |-> uid, send_email |-> send_email],
           <<reset_password_request(uid, Default(send_email, PyBool(TRUE)))>>)

change_password(uid, old_password, new_password) ==
    /\ pc = "idle"
    /\ Invoke("change_password",
           [uid |-> uid, old_password |-> old_password,
            new_password |-> new_password],
           <<change_password_request(uid, old_password, new_password)>>)

\* Variant: without the flag nothing is sent.
expire_password_norequest(uid, temp_password) ==
    /\ pc = "idle"
    /\ Invoke("expire_password", [uid |-> uid, temp_password |-> temp_password],
           IF ~Truthy(Default(temp_password, PyBool(FALSE)))
           THEN <<>>
           ELSE <<expire_password_request(uid, temp_password)>>)

expire_password(uid, temp_password) ==
    /\ pc = "idle"
    /\ Invoke("expire_password", [uid |-> uid, temp_password |-> temp_password],
           <<expire_password_request(uid,
                                     Default(temp_password, PyBool(FALSE)))>>)

\* ApiClient returns the response of the call in flight.
HttpRespond(resp) ==
    /\ pc = "waiting"
    /\ pc' = "responded"
    /\ response' = resp
    /\ UNCHANGED <<base_url, api_token, call, issued, result>>

\* ApiClient raises; no method catches, so the error leaves the method.
HttpRaise(err) ==
    /\ pc = "waiting"
    /\ pc' = "idle"
    /\ result' = Raised(err)
    /\ UNCHANGED <<base_url, api_token, call, issued, response>>

\* The rest of the method after the blocking call: parse and return.
Return ==
    /\ pc = "responded"
    /\ pc' = "idle"
    /\ result' = ReturnOf(call, response)
    /\ UNCHANGED <<base_url, api_token, call, issued, response>>

Next ==
    \/ \E limit \in Limits, q \in Queries, f \in Filters, s \in Searches :
           get_users(limit, q, f, s)
    \/ \E uid \in Uids : get_user(uid)
    \/ \E uid \in Uids : get_user_groups(uid)
    \/ \E uid \in Uids : get_user_apps(uid)
    \/ \E user \in Users : update_user(user)
    \/ \E user \in Users : update_user_partially(user)
    \/ \E uid \in Uids, user \in Users : update_user_by_id(uid, user)
    \/ \E uid \in Uids, user \in Users : update_user_by_id_partially(uid, user)
    \/ \E user \in Users, activate \in Activates : create_user(user, activate)
    \/ \E uid \in Uids : delete_user(uid)
    \/ \E limit \in Limits, f \in Filters, s \in Searches, after \in Afters,
          url \in Urls : get_paged_users(limit, f, s, after, url)
    \/ \E uid \in Uids, send_email \in Flags : activate_user(uid, send_email)
    \/ \E uid \in Uids : deactivate_user(uid)
    \/ \E uid \in Uids : unlock_user(uid)
    \/ \E uid \in Uids, send_email \in Flags : reset_password(uid, send_email)
    \/ \E uid \in Uids, old \in Passwords, new \in Passwords :
           change_password(uid, old, new)
    \/ \E uid \in Uids, temp \in Flags : expire_password(uid, temp)
    \/ \E resp \in Responses : HttpRespond(resp)
    \/ \E err \in HttpErrors : HttpRaise(err)
    \/ Return

Spec == Init /\ [][Next]_vars

(***************************************************************************)
(* Properties.                                                             *)
(***************************************************************************)

\* A method has been called and has finished (returned or raised).
Finished == pc = "idle" /\ call.op /= "none"

\* The params mapping of an ApiClient call holds key k.
HasKey(r, k) == r.params.passed /\ k \in DOMAIN r.params.value

\* The params mapping of an ApiClient call holds a key whose value is None.
HasNoneValue(r) ==
    r.params.passed /\ \E k \in DOMAIN r.params.value : r.params.value[k] = PyNone

\* C1: create_user with activate=None sends no 'activate' key in the query
\* of its POST to '/'; with activate=False it sends the key with the value
\* false, with activate=True the key with the value true; the user is the
\* request body in every case.
C1_CreateUserActivate ==
    (call.op = "create_user" /\ call.args.activate /= Omitted) =>
        LET a == call.args.activate
            r == issued[1]
        IN /\ Len(issued) = 1
           /\ Verb(r.method) = "POST"
           /\ r.method = "post_path"
           /\ r.target = "/"
           /\ r.data = Passed(call.args.user)
           /\ (a = PyNone => ~HasKey(r, "activate"))
           /\ (a /= PyNone =>
                  /\ HasKey(r, "activate")
                  /\ DOMAIN r.params.value = {"activate"}
                  /\ r.params.value.activate = a)

C1_Witness ==
    /\ Finished
    /\ call.op = "create_user"
    /\ call.args.activate = PyNone
    /\ ~HasKey(issued[1], "activate")
    /\ result.kind = "returned"

\* C2: expire_password(uid, temp_password=False) POSTs to
\* '/{uid}/lifecycle/expire_password' without query parameters and returns
\* None whatever the response; with temp_password=True it POSTs to the same
\* path with tempPassword=true and returns the body deserialized as a
\* TempPassword.
C2_ExpirePassword ==
    (call.op = "expire_password" /\ call.args.temp_password /= Omitted) =>
        LET t == call.args.temp_password
            r == issued[1]
        IN /\ Len(issued) = 1
           /\ Verb(r.method) = "POST"
           /\ r.target = "/" \o call.args.uid \o "/lifecycle/expire_password"
           /\ r.data = NotPassed
           /\ (t = PyBool(FALSE) =>
                  /\ r.params = NotPassed
                  /\ (pc = "idle" /\ response \in Responses =>
                         result = Returned(PyNone)))
           /\ (t = PyBool(TRUE) =>
                  /\ r.params = Passed([tempPassword |-> PyBool(TRUE)])
                  /\ (pc = "idle" /\ response \in Responses =>
                         /\ result /= Returned(PyNone)
                         /\ result = Deserialize(response.text, "TempPassword")
                         /\ (result.kind = "returned" =>
                                result.value.model = "TempPassword")))

C2_Witness ==
    /\ Finished
    /\ call.op = "expire_password"
    /\ call.args.temp_password = PyBool(FALSE)
    /\ response.text.kind = "object"
    /\ result = Returned(PyNone)

\* One page request of get_paged_users goes to the URL itself, without query.
C3_ToUrl(r, url) == r = ApiCall("get", url.s, NotPassed, NotPassed)

\* One page request of get_paged_users goes to '/' with the query built from
\* limit, after, filter and search.
C3_ToRoot(r, a) ==
    r = ApiCall("get_path", "/", NotPassed,
                Passed([limit |-> a.limit, after |-> a.after,
                        filter |-> a.filter_string,
                        search |-> a.search_string]))

\* C3 as stated: whenever a URL is supplied (url is not None),
\* get_paged_users GETs exactly that URL without query parameters; only with
\* no URL does it GET '/' with the query.
C3_AsStated ==
    call.op = "get_paged_users" =>
        /\ Len(issued) = 1
        /\ (call.args.url /= PyNone => C3_ToUrl(issued[1], call.args.url))
        /\ (call.args.url = PyNone => C3_ToRoot(issued[1], call.args))

\* C3 (amended): for every non-empty URL X and all other arguments,
\* get_paged_users(url=X) GETs exactly X without query parameters; when url
\* is None or the empty string it GETs '/' with the query built from limit,
\* after, filter and search.  The result is the PagedResults of that single
\* response and the User model.
C3_PagedUsersUrl ==
    call.op = "get_paged_users" =>
        /\ Len(issued) = 1
        /\ Verb(issued[1].method) = "GET"
        /\ (call.args.url \notin {PyNone, PyStr("")} =>
               C3_ToUrl(issued[1], call.args.url))
        /\ (call.args.url \in {PyNone, PyStr("")} =>
               C3_ToRoot(issued[1], call.args))
        /\ (pc = "idle" /\ response \in Responses =>
               result = PagedResults(response, "User"))

C3_Witness ==
    /\ Finished
    /\ call.op = "get_paged_users"
    /\ call.args.url = PyStr(NextUrl)
    /\ call.args.limit /= PyNone
    /\ call.args.after /= PyNone
    /\ issued[1].target = NextUrl
    /\ issued[1].params = NotPassed
    /\ result.kind = "returned"

C5_OneRequest ==
    /\ (call.op /= "none" => Len(issued) = 1)
    /\ (pc = "waiting" => result = NoResult /\ response = NoResponse)
    /\ (pc = "responded" => result = NoResult /\ response \in Responses)
    /\ (result.kind = "returned" =>
           /\ pc = "idle"
           /\ response \in Responses
           /\ result = ReturnOf(call, response))

C5_Witness ==
    /\ Finished
    /\ call.op = "expire_password"
    /\ call.args.temp_password = Omitted
    /\ Len(issued) = 1
    /\ result.kind = "returned"

\* The method in progress parses the response body.
ParsesBody(c) ==
    ~(c.op = "expire_password"
        /\ ~Truthy(Default(c.args.temp_password, PyBool(FALSE))))

LifecycleSuffix(op) ==
    CASE op = "activate_user" -> "/lifecycle/activate"
      [] op = "deactivate_user" -> "/lifecycle/deactivate"
      [] op = "unlock_user" -> "/lifecycle/unlock"
      [] op = "reset_password" -> "/lifecycle/reset_password"
      [] op = "change_password" -> "/credentials/change_password"

\* C7: activate_user, deactivate_user, unlock_user, reset_password and
\* change_password POST to their '/{uid}/...' path; only change_password
\* sends a body, which is {oldPassword: {value: old}, newPassword: {value:
\* new}}.
C7_Lifecycle ==
    call.op \in {"activate_user", "deactivate_user", "unlock_user",
                 "reset_password", "change_password"} =>
        LET r == issued[1]
        IN /\ Len(issued) = 1
           /\ Verb(r.method) = "POST"
           /\ r.target = "/" \o call.args.uid \o LifecycleSuffix(call.op)
           /\ (call.op /= "change_password" => r.data = NotPassed)
           /\ (call.op = "change_password" =>
                  /\ r.data.passed
                  /\ DOMAIN r.data.value = {"oldPassword", "newPassword"}
                  /\ r.data.value.oldPassword =
                         [value |-> call.args.old_password]
                  /\ r.data.value.newPassword =
                         [value |-> call.args.new_password])

C7_Witness ==
    /\ Finished
    /\ call.op = "change_password"
    /\ call.args.old_password = "pw1"
    /\ call.args.new_password = "pw2"
    /\ issued[1].data.value.newPassword.value = "pw2"
    /\ result.kind = "returned"

\* C8: full and partial update go to the same path '/{id}' with the user as
\* body; the full update is a PUT, the partial one a POST; update_user and
\* update_user_partially take the id from user.id.
C8_Updates ==
    call.op \in {"update_user", "update_user_partially", "update_user_by_id",
                 "update_user_by_id_partially"} =>
        LET r == issued[1]
            id == IF call.op \in {"update_user", "update_user_partially"}
                  THEN call.args.user.id
                  ELSE call.args.uid
            full == call.op \in {"update_user", "update_user_by_id"}
        IN /\ Len(issued) = 1
           /\ r.target = "/" \o id
           /\ r.data = Passed(call.args.user)
           /\ r.params = NotPassed
           /\ Verb(r.method) = (IF full THEN "PUT" ELSE "POST")

C8_Witness ==
    /\ Finished
    /\ call.op = "update_user_partially"
    /\ call.args.user.id = "u2"
    /\ issued[1].target = "/u2"
    /\ Verb(issued[1].method) = "POST"
    /\ result.kind = "returned"

\* The ApiClient call of a method as a function of its arguments alone.
RequestOf(c) ==
    LET a == c.args
    IN CASE c.op = "get_users" ->
              get_users_request(a.limit, a.q, a.filter_string, a.search_string)
         [] c.op = "get_user" -> get_user_request(a.uid)
         [] c.op = "get_user_groups" -> get_user_groups_request(a.uid)
         [] c.op = "get_user_apps" -> get_user_apps_request(a.uid)
         [] c.op = "update_user" -> update_user_request(a.user)
         [] c.op = "update_user_partially" ->
              update_user_partially_request(a.user)
         [] c.op = "update_user_by_id" ->
              update_user_by_id_request(a.uid, a.user)
         [] c.op = "update_user_by_id_partially" ->
              update_user_by_id_partially_request(a.uid, a.user)
         [] c.op = "create_user" ->
              create_user_request(a.user, Default(a.activate, PyBool(FALSE)))
         [] c.op = "delete_user" -> delete_user_request(a.uid)
         [] c.op = "get_paged_users" ->
              get_paged_users_request(a.limit, a.filter_string,
                                      a.search_string, a.after, a.url)
         [] c.op = "activate_user" ->
              activate_user_request(a.uid, Default(a.send_email, PyBool(TRUE)))
         [] c.op = "deactivate_user" -> deactivate_user_request(a.uid)
         [] c.op = "unlock_user" -> unlock_user_request(a.uid)
         [] c.op = "reset_password" ->
              reset_password_request(a.uid, Default(a.send_email, PyBool(TRUE)))
         [] c.op = "change_password" ->
              change_password_request(a.uid, a.old_password, a.new_password)
         [] c.op = "expire_password" ->
              expire_password_request(a.uid,
                                      Default(a.temp_password, PyBool(FALSE)))

\* C9: no step of any operation, successful or failing, changes the client's
\* base URL (which ends in '/api/v1/users') or its token, and the request a
\* method issues is determined by its own arguments, whatever the previous
\* operation left behind.
C9_ConfigFrame ==
    [][/\ base_url' = base_url
       /\ api_token' = api_token
       /\ base_url \in {b \o "/api/v1/users" : b \in BaseUrls}
       /\ (pc = "idle" /\ pc' = "waiting" => issued' = <<RequestOf(call')>>)
       /\ (pc /= "idle" => issued' = issued /\ call' = call)]_vars

C9_Witness ==
    /\ Finished
    /\ call.op = "get_paged_users"
    /\ call.args.url = PyStr(NextUrl)
    /\ result.kind = "raised"
    /\ base_url = "https://dev.example.com/api/v1/users"
    /\ api_token = "token2"

\* C10: create_user called without the activate argument sends the
\* 'activate' key with the value false, exactly as create_user(user,
\* activate=False) does; the key is left out only for an explicit
\* activate=None.
C10_CreateUserDefault ==
    call.op = "create_user" =>
        /\ (call.args.activate = Omitted =>
               /\ issued = <<ApiCall("post_path", "/", Passed(call.args.user),
                                     Passed([activate |-> PyBool(FALSE)]))>>
               /\ HasKey(issued[1], "activate"))
        /\ (~HasKey(issued[1], "activate") <=> call.args.activate = PyNone)

C10_Witness ==
    /\ Finished
    /\ call.op = "create_user"
    /\ call.args.activate = Omitted
    /\ issued[1].params.value.activate = PyBool(FALSE)
    /\ result.kind = "returned"

====
